---- MODULE Spec2Model ----
(***************************************************************************)
(* Model of the STM32 six-microphone monitor (src/stm32_mic_monitor.py):   *)
(* the capture thread (STM32MicMonitor.read_serial), the bounded channel   *)
(* store (self.data, deques with maxlen), the text decoder (parse_line),   *)
(* the lifecycle calls (connect, start_reading, stop_reading, disconnect,  *)
(* clear_data), the periodic render callback (MonitorGUI.update_plots) and *)
(* the view policy it applies (MonitorGUI.adjust_axis_scale and the        *)
(* operator's time-window and Y-scale controls).                           *)
(*                                                                         *)
(* Granularity: one step per bytecode-level access to shared state.  The   *)
(* interpreter may switch threads between any two such accesses, so every  *)
(* deque.append, deque.clear, len() and list() is a step of its own.       *)
(***************************************************************************)
EXTENDS Integers, Sequences, FiniteSets, TLC

(***************************************************************************)
(* Bounds of the model and program constants                               *)
(***************************************************************************)
\* capacity of every deque (max_points argument of STM32MicMonitor)
MaxPoints == 2
\* number of thread objects start_reading may create in one run
MaxThreads == 2
\* largest value of the wall clock time.time(), in seconds
MaxTime == 2
\* number of calls of clear_data and update_plots, taken together, in one run
MaxCalls == 1
\* self.num_mics
NumMics == 6

\* the last second of the capture whose store the view policy is applied to
MaxViewTime == 3

\* number of samples the transport delivers in one run
MaxSamples == MaxPoints + 1

Mics == 0 .. (NumMics - 1)
Threads == 1 .. MaxThreads
\* the keys of self.data, in the order read_serial appends and clear_data wipes
MetricOrder == <<"time", "rms", "min", "max", "amplitude">>
Metrics == {MetricOrder[k] : k \in 1 .. Len(MetricOrder)}

(***************************************************************************)
(* Text decoder: self.pattern and parse_line                               *)
(* A line is a sequence of one-character strings.                          *)
(***************************************************************************)
Digits == <<"0", "1", "2", "3", "4", "5", "6", "7", "8", "9">>
DigitChars == {Digits[k] : k \in 1 .. 10}
SpaceChars == {" ", "\t"}

\* int() of one digit character
DigitVal(c) == (CHOOSE k \in 1 .. 10 : Digits[k] = c) - 1

\* int() of a string of digits
RECURSIVE DecVal(_)
DecVal(ds) ==
    IF ds = <<>> THEN 0
    ELSE 10 * DecVal(SubSeq(ds, 1, Len(ds) - 1)) + DigitVal(ds[Len(ds)])

\* an int() that loses the sign of its argument
IntValUnsigned(tok) ==
    IF tok # <<>> /\ tok[1] = "-" THEN DecVal(Tail(tok)) ELSE DecVal(tok)

\* int() of an optionally negative string of digits
IntVal(tok) ==
    IF tok # <<>> /\ tok[1] = "-" THEN 0 - DecVal(Tail(tok)) ELSE DecVal(tok)

\* greedy repetition of a character class: the first position at or after p
\* whose character is not in cls
RECURSIVE SkipClass(_, _, _)
SkipClass(s, p, cls) ==
    IF p <= Len(s) /\ s[p] \in cls THEN SkipClass(s, p + 1, cls) ELSE p

\* a literal at position p: the position after it, or 0 when it is not there
MatchLit(s, p, lit) ==
    IF p = 0 THEN 0
    ELSE IF p + Len(lit) - 1 <= Len(s) /\ SubSeq(s, p, p + Len(lit) - 1) = lit
         THEN p + Len(lit) ELSE 0

\* \s+ (one or more) and \s* (zero or more)
MatchSpaces1(s, p) ==
    IF p = 0 THEN 0
    ELSE LET q == SkipClass(s, p, SpaceChars) IN IF q > p THEN q ELSE 0
MatchSpaces0(s, p) == IF p = 0 THEN 0 ELSE SkipClass(s, p, SpaceChars)

\* \d+ : the position after the digits, or 0
MatchDigits1(s, p) ==
    IF p = 0 THEN 0
    ELSE LET q == SkipClass(s, p, DigitChars) IN IF q > p THEN q ELSE 0

\* -?\d+
MatchSigned(s, p) ==
    IF p = 0 THEN 0
    ELSE IF p <= Len(s) /\ s[p] = "-" THEN MatchDigits1(s, p + 1)
         ELSE MatchDigits1(s, p)

\* the value parse_line returns when the pattern does not match (None)
None == [mic |-> -1, min |-> 0, max |-> 0, amplitude |-> 0, rms |-> 0]

\* self.pattern.match(line): anchored at the start of the line, free at its
\* end.  Yields the positions that delimit the seven groups, or <<>>.
\* r'A(\d):\s+MIN=\s*(-?\d+)\s+MAX=\s*(-?\d+)\s+AMP=(\d+)\.(\d+)mV\s+RMS=(\d+)\.(\d+)mV'
pattern(s) ==
    LET p1 == MatchLit(s, 1, <<"A">>)
        p2 == IF p1 # 0 /\ p1 <= Len(s) /\ s[p1] \in DigitChars THEN p1 + 1 ELSE 0
        p3 == MatchSpaces1(s, MatchLit(s, p2, <<":">>))
        p4 == MatchSpaces0(s, MatchLit(s, p3, <<"M", "I", "N", "=">>))
        p5 == MatchSigned(s, p4)
        p6 == MatchSpaces0(s, MatchLit(s, MatchSpaces1(s, p5), <<"M", "A", "X", "=">>))
        p7 == MatchSigned(s, p6)
        p8 == MatchLit(s, MatchSpaces1(s, p7), <<"A", "M", "P", "=">>)
        p9 == MatchDigits1(s, p8)
        p10 == MatchLit(s, p9, <<".">>)
        p11 == MatchDigits1(s, p10)
        p12 == MatchLit(s, MatchSpaces1(s, MatchLit(s, p11, <<"m", "V">>)),
                        <<"R", "M", "S", "=">>)
        p13 == MatchDigits1(s, p12)
        p14 == MatchLit(s, p13, <<".">>)
        p15 == MatchDigits1(s, p14)
        p16 == MatchLit(s, p15, <<"m", "V">>)
    IN  IF p16 = 0 THEN <<>>
        ELSE << SubSeq(s, p1, p2 - 1), SubSeq(s, p4, p5 - 1), SubSeq(s, p6, p7 - 1),
                SubSeq(s, p8, p9 - 1), SubSeq(s, p10, p11 - 1),
                SubSeq(s, p12, p13 - 1), SubSeq(s, p14, p15 - 1) >>

\* parse_line: amplitude and rms are kept in thousandths of a millivolt,
\* amp_int + amp_dec / 1000.0 being (1000 * amp_int + amp_dec) / 1000
parse_line(line) ==
    LET match == pattern(line)
    IN  IF match # <<>>
        THEN [mic |-> DecVal(match[1]),
              min |-> IntVal(match[2]),
              max |-> IntVal(match[3]),
              amplitude |-> 1000 * DecVal(match[4]) + DecVal(match[5]),
              rms |-> 1000 * DecVal(match[6]) + DecVal(match[7])]
        ELSE None

(***************************************************************************)
(* State                                                                   *)
(***************************************************************************)
VARIABLES
    data,             \* self.data: metric -> list over mics of deque(maxlen=max_points)
    serial_conn,      \* self.serial_conn: "none" (None), "open" or "closed"
    running,          \* self.running
    thread,           \* self.thread: 0 (None) or the latest Thread object
    start_time,       \* self.start_time
    sample_count,     \* self.sample_count
    last_sample_time, \* self.last_sample_time
    sampling_freq,    \* self.sampling_freq as <<samples, seconds>>
    now,              \* the wall clock read by time.time()
    tpc,              \* position of each capture thread in read_serial
    tparsed,          \* read_serial local: parsed
    tcur,             \* read_serial local: current_time
    terr,             \* read_serial local: the exception e handled at line 146
    gpc,              \* position of the main (Tk) thread
    gi,               \* main thread local: loop index i of clear_data / update_plots
    gk,               \* main thread local: statement reached inside iteration i
    gtab,             \* update_plots local: current_tab
    gtimes,           \* update_plots local: times_i / times_mic
    lines,            \* the (x, y) data held by every plotted Line2D
    hist,             \* history: the elements appended to each series since its last wipe
    nsamples,         \* history: number of samples decoded so far (sample identities)
    tsid,             \* history: identity of the sample a thread is appending
    nthreads,         \* history: number of Thread objects created so far
    stopped,          \* history: stop_reading has returned and start_reading was not called since
    stop_pending,     \* history: line 159 has run and no thread was started since
    last_start,       \* history: what the latest start_reading call did
    ncalls,           \* history: number of clear_data and update_plots calls so far
    session_start,    \* history: the clock when start_reading last created a thread
    pin,              \* decoder input: the fields a line was written from
    presult,          \* decoder output: what parse_line returned for that line
    time_window_var,  \* MonitorGUI: text of the time-window entry
    show_all_time,    \* MonitorGUI: the "full history" checkbox
    time_window,      \* MonitorGUI: self.time_window
    auto_scale,       \* MonitorGUI: the auto / manual scale switch
    y_min_var,        \* MonitorGUI: text of the Y min entry
    y_max_var,        \* MonitorGUI: text of the Y max entry
    manual_y,         \* MonitorGUI: <<self.manual_y_min, self.manual_y_max>>
    xlim,             \* X limits of every axes
    xauto,            \* every axes: X autoscaling is on
    ylim,             \* Y limits of every axes
    yauto,            \* every axes: Y autoscaling is on
    gcur,             \* update_plots local: current_time
    last_valid_window,\* history: the latest numeric window width the render loop read
    view_ev,          \* history: outcome of the latest scale operation
    bin_buffer,       \* binary decoder: the bytes received and not yet consumed
    bin_frames,       \* binary decoder: the frames produced so far
    frame_index,      \* binary decoder: cumulative count of decoded frames
    bin_received,     \* history: every byte handed to the binary decoder
    ndecodes          \* history: number of binary decode calls so far

vars == << data, serial_conn, running, thread, start_time, sample_count,
           last_sample_time, sampling_freq, now, tpc, tparsed, tcur, terr,
           gpc, gi, gk, gtab, gtimes, lines, hist, nsamples, tsid, nthreads,
           stopped, stop_pending, last_start, ncalls, session_start, pin, presult, time_window_var,
           show_all_time, time_window, auto_scale, y_min_var, y_max_var, manual_y,
           xlim, xauto, ylim, yauto, gcur, last_valid_window, view_ev,
           bin_buffer, bin_frames, frame_index, bin_received, ndecodes >>

monitorVars == << start_time, sample_count, last_sample_time, sampling_freq >>
threadLocals == << tparsed, tcur, terr, tsid >>
guiLocals == << gi, gk, gtab, gtimes >>
histVars == << nthreads, stopped, stop_pending, last_start, ncalls, session_start >>
decoderVars == << pin, presult >>
binaryVars == << bin_buffer, bin_frames, frame_index, bin_received, ndecodes >>
settingVars == << time_window_var, show_all_time, auto_scale, y_min_var, y_max_var >>
axesVars == << xlim, xauto, ylim, yauto >>
viewVars == << settingVars, axesVars, time_window, manual_y, gcur, last_valid_window,
               view_ev >>

(***************************************************************************)
(* Channel store: collections.deque(maxlen=max_points)                     *)
(* An element carries the stored number (val) and two history fields: the  *)
(* identity of the sample it belongs to (sid) and whether it was already   *)
(* in the store when the latest clear_data was called ("pre") or was       *)
(* appended since ("new").                                                 *)
(***************************************************************************)
max_points == MaxPoints

\* a deque that was built without maxlen: it never drops anything
DequeAppendUnbounded(q, e) == Append(q, e)

\* deque.append on a deque with maxlen: a full deque drops its oldest element
DequeAppend(q, e) ==
    IF max_points = 0 THEN <<>>
    ELSE IF Len(q) >= max_points THEN Append(Tail(q), e)
    ELSE Append(q, e)

\* deque.clear()
\* a wipe that drops only the oldest element
DequeClearOldest(q) == IF q = <<>> THEN q ELSE Tail(q)

DequeClear(q) == <<>>

\* list(deque): a copy of the stored numbers (with the sample identities)
Snapshot(q) == [k \in 1 .. Len(q) |-> [val |-> q[k].val, sid |-> q[k].sid]]

\* the last n elements of h
LastN(h, n) == IF Len(h) <= n THEN h ELSE SubSeq(h, Len(h) - n + 1, Len(h))

EmptyStore == [m \in Metrics |-> [i \in Mics |-> <<>>]]

(***************************************************************************)
(* Lines on the wire                                                       *)
(* A line is written from its fields: the channel digit, the four value    *)
(* tokens, and the field (if any) the sender left out.                     *)
(***************************************************************************)
\* well-formed and ill-formed tokens for MIN and MAX ...
GoodInts == { <<"1", "2">>, <<"-", "7">> }
BadInts == { <<"x">> }
\* ... and for AMP and RMS
GoodMillivolts == { <<"1", "2", ".", "5", "0", "0">>, <<"8", ".", "2", "5", "0">> }
BadMillivolts == { <<"1", "x", ".", "5", "0", "0">> }
\* millivolt values whose fraction has one digit, or four, instead of three
OddMillivolts == { <<"1", "2", ".", "5">>, <<"1", "2", ".", "5", "0", "0", "0">> }
\* what may follow the RMS field on the line: nothing, or more text
Tails == { <<>>, <<" ", "x">> }
Fields == {"MIN", "MAX", "AMP", "RMS"}

\* the number the sender wrote a token for: MIN and MAX in ADC units ...
IntMeant(tok) == IF tok = <<"1", "2">> THEN 12 ELSE 0 - 7
\* ... AMP and RMS in thousandths of a millivolt
MillivoltsMeant(tok) ==
    IF tok = <<"1", "2", ".", "5", "0", "0">> THEN 12500 ELSE 8250

Field(f, name, lit, tok, unit) ==
    IF f.miss = name THEN <<>> ELSE <<" ">> \o lit \o tok \o unit

\* "A<ch>: MIN=<min> MAX=<max> AMP=<amp>mV RMS=<rms>mV"
LineOf(f) ==
    <<"A", Digits[f.ch + 1], ":">>
    \o Field(f, "MIN", <<"M", "I", "N", "=">>, f.min, <<>>)
    \o Field(f, "MAX", <<"M", "A", "X", "=">>, f.max, <<>>)
    \o Field(f, "AMP", <<"A", "M", "P", "=">>, f.amp, <<"m", "V">>)
    \o Field(f, "RMS", <<"R", "M", "S", "=">>, f.rms, <<"m", "V">>)
    \o f.tail

\* the lines the decoder is checked on
ParseInputs ==
    [ch : 0 .. 9,
     min : GoodInts \cup BadInts,
     max : GoodInts \cup BadInts,
     amp : GoodMillivolts \cup BadMillivolts \cup OddMillivolts,
     rms : GoodMillivolts \cup BadMillivolts \cup OddMillivolts,
     miss : Fields \cup {"none"},
     tail : Tails]

\* a line the wire format of the device does not allow: a field is missing,
\* the channel digit is not one of 0..5, or a value is not a number
Malformed(f) ==
    \/ f.miss # "none"
    \/ f.ch \notin 0 .. 5
    \/ f.min \in BadInts \/ f.max \in BadInts
    \/ f.amp \in BadMillivolts \/ f.rms \in BadMillivolts

\* a line of the expected shape: every field present, MIN and MAX integers,
\* AMP and RMS with a fraction of exactly three digits, nothing after RMS
WellShaped(f) ==
    /\ f.miss = "none"
    /\ f.min \in GoodInts /\ f.max \in GoodInts
    /\ f.amp \in GoodMillivolts /\ f.rms \in GoodMillivolts
    /\ f.tail = <<>>

SampleFields(ch) ==
    [ch |-> ch, min |-> <<"1", "2">>, max |-> <<"1", "2">>,
     amp |-> <<"8", ".", "2", "5", "0">>, rms |-> <<"8", ".", "2", "5", "0">>,
     miss |-> "none", tail |-> <<>>]

\* what readline().decode().strip() hands to the capture loop: a sample of
\* channel 0, a sample tagged with a channel the store does not have, a line
\* that is not a sample, and an empty line
LinesIn ==
    { LineOf(SampleFields(0)),
      LineOf(SampleFields(6)),
      <<"b", "o", "o", "t">>,
      <<>> }

\* the decoder has not been called yet
Pending == [mic |-> -2, min |-> 0, max |-> 0, amplitude |-> 0, rms |-> 0]

(***************************************************************************)
(* Threads                                                                 *)
(***************************************************************************)
\* the process has not exited: its threads can still run
ProcessUp == gpc # "exited"

\* Thread.is_alive()
is_alive(t) == tpc[t] \notin {"new", "dead"}

Alive == {t \in Threads : ProcessUp /\ is_alive(t)}

\* a start_reading that consults the running flag instead of the thread
ShouldStartOnFlag == ~running

\* the condition of start_reading, line 152
ShouldStart == thread = 0 \/ ~is_alive(thread)

\* the Line2D objects of MonitorGUI, each created by plot([], [])
LineKinds == {"rms_lines", "minmax_lines_max", "minmax_lines_min", "amplitude_lines",
              "single_rms", "single_amp", "single_max", "single_min"}
LineNames == LineKinds \X Mics

\* the Axes objects of MonitorGUI and the lines each of them holds
AxisKinds == {"rms_axes", "minmax_axes", "amplitude_axes",
              "single_ax_rms", "single_ax_amp", "single_ax_max", "single_ax_min"}
AxisNames == AxisKinds \X Mics
AxisLines(kind) ==
    IF kind = "rms_axes" THEN {"rms_lines"}
    ELSE IF kind = "minmax_axes" THEN {"minmax_lines_max", "minmax_lines_min"}
    ELSE IF kind = "amplitude_axes" THEN {"amplitude_lines"}
    ELSE IF kind = "single_ax_rms" THEN {"single_rms"}
    ELSE IF kind = "single_ax_amp" THEN {"single_amp"}
    ELSE IF kind = "single_ax_max" THEN {"single_max"}
    ELSE {"single_min"}

\* self.time_window = 30.0 (also the fallback of adjust_axis_scale)
DefaultTimeWindow == 30
\* the texts the entries are created with: "30", "0" and "3300"
InitialWindowEntry == <<"3", "0">>
InitialYMinEntry == <<"0">>
InitialYMaxEntry == <<"3", "3", "0", "0">>
\* the limits of a freshly created Axes
FreshLimits == <<0, 1>>

\* float(text) succeeds: the text is an optionally negative whole number
\* (the only numeric texts the operator types here)
IsFloat(tok) == MatchSigned(tok, 1) = Len(tok) + 1
\* float(text), for a text on which it succeeds
float(tok) == IntVal(tok)

(***************************************************************************)
(* Binary decoder: a flat stream of frames of NumMics little-endian signed *)
(* 16-bit samples, channel order 0..5, frame boundaries by byte count.     *)
(* A byte is a number 0..255; a timestamp is counted in sample periods.    *)
(***************************************************************************)
\* a frame is exactly channel_count * 2 bytes
FrameBytes == NumMics * 2

\* one little-endian signed 16-bit integer
Int16(lo, hi) ==
    LET u == lo + 256 * hi
    IN IF u >= 32768 THEN u - 65536 ELSE u

\* the samples of one frame, one per channel, in channel order
DecodeFrame(b) == [i \in Mics |-> Int16(b[2 * i + 1], b[2 * i + 2])]

\* the complete frames a buffer contains
CompleteFrames(b) == Len(b) \div FrameBytes

\* the bytes of the k-th frame of a buffer
FrameAt(b, k) == SubSeq(b, FrameBytes * (k - 1) + 1, FrameBytes * k)

\* a decoder that throws away what is left after the last complete frame
RemainderDropped(b) == <<>>

\* the partial trailing bytes, left unconsumed for the next call
Remainder(b) == SubSeq(b, FrameBytes * CompleteFrames(b) + 1, Len(b))

\* the decoder before its first call
BinaryIdle ==
    /\ bin_buffer = <<>>
    /\ bin_frames = <<>>
    /\ frame_index = 0
    /\ bin_received = <<>>
    /\ ndecodes = 0

\* the state STM32MicMonitor.__init__ and MonitorGUI.__init__ leave
Constructed ==
    /\ data = EmptyStore
    /\ serial_conn = "none"
    /\ running = FALSE
    /\ thread = 0
    /\ now = 0
    /\ start_time = 0
    /\ sample_count = 0
    /\ last_sample_time = 0
    /\ sampling_freq = <<0, 1>>
    /\ tpc = [t \in Threads |-> "new"]
    /\ tparsed = [t \in Threads |-> None]
    /\ tcur = [t \in Threads |-> 0]
    /\ terr = [t \in Threads |-> "none"]
    /\ tsid = [t \in Threads |-> 0]
    /\ gpc = "connect"
    /\ gi = 0
    /\ gk = 0
    /\ gtab = 0
    /\ gtimes = <<>>
    /\ lines = [l \in LineNames |-> [x |-> <<>>, y |-> <<>>]]
    /\ hist = EmptyStore
    /\ nsamples = 0
    /\ nthreads = 0
    /\ stopped = FALSE
    /\ stop_pending = FALSE
    /\ last_start = "none"
    /\ ncalls = 0
    /\ session_start = 0
    /\ time_window_var = InitialWindowEntry
    /\ show_all_time = FALSE
    /\ time_window = DefaultTimeWindow
    /\ auto_scale = FALSE
    /\ y_min_var = InitialYMinEntry
    /\ y_max_var = InitialYMaxEntry
    /\ manual_y = <<float(InitialYMinEntry), float(InitialYMaxEntry)>>
    /\ xlim = [a \in AxisNames |-> FreshLimits]
    /\ xauto = [a \in AxisNames |-> TRUE]
    /\ ylim = [a \in AxisNames |-> FreshLimits]
    /\ yauto = [a \in AxisNames |-> TRUE]
    /\ gcur = 0
    /\ last_valid_window = DefaultTimeWindow
    /\ view_ev = "none"

Init ==
    /\ Constructed
    /\ pin = SampleFields(0)
    /\ presult = Pending
    /\ BinaryIdle

(***************************************************************************)
(* read_serial: the capture thread                                         *)
(***************************************************************************)
SetPc(t, pc) == tpc' = [tpc EXCEPT ![t] = pc]

\* lines 106-107: self.running = True
Entry(t) ==
    /\ ProcessUp /\ tpc[t] = "entry"
    /\ running' = TRUE
    /\ SetPc(t, "test")
    /\ UNCHANGED << data, serial_conn, thread, monitorVars, now, threadLocals, gpc,
                    guiLocals, lines, hist, nsamples, histVars, decoderVars, binaryVars, viewVars >>

\* line 109: while self.running
LoopTest(t) ==
    /\ ProcessUp /\ tpc[t] = "test"
    /\ SetPc(t, IF running THEN "poll" ELSE "dead")
    /\ UNCHANGED << data, serial_conn, running, thread, monitorVars, now, threadLocals,
                    gpc, guiLocals, lines, hist, nsamples, histVars, decoderVars, binaryVars, viewVars >>

\* lines 111, 144: no connection object, or no byte waiting; sleep 1 ms
PollNoData(t) ==
    /\ ProcessUp /\ tpc[t] = "poll"
    /\ serial_conn \in {"none", "open"}
    /\ SetPc(t, "test")
    /\ UNCHANGED << data, serial_conn, running, thread, monitorVars, now, threadLocals,
                    gpc, guiLocals, lines, hist, nsamples, histVars, decoderVars, binaryVars, viewVars >>

\* lines 111-112, 146: in_waiting or readline raises (I/O fault, or the port
\* was closed by disconnect)
PollFault(t) ==
    /\ ProcessUp /\ tpc[t] = "poll"
    /\ serial_conn \in {"open", "closed"}
    /\ SetPc(t, "except")
    /\ terr' = [terr EXCEPT ![t] = "SerialException"]
    /\ UNCHANGED << data, serial_conn, running, thread, monitorVars, now, tparsed, tcur,
                    tsid, gpc, guiLocals, lines, hist, nsamples, histVars, decoderVars, binaryVars, viewVars >>

\* lines 112-121, 144: a line is read that is empty or that parse_line does
\* not match; nothing is done with it; sleep 1 ms
PollDropped(t) ==
    /\ ProcessUp /\ tpc[t] = "poll"
    /\ serial_conn = "open"
    /\ \E line \in LinesIn : line = <<>> \/ parse_line(line) = None
    /\ SetPc(t, "test")
    /\ UNCHANGED << data, serial_conn, running, thread, monitorVars, now, threadLocals,
                    gpc, guiLocals, lines, hist, nsamples, histVars, decoderVars, binaryVars, viewVars >>

\* a timestamp counted from the last reset of the rate window
current_time_in_window == now - last_sample_time

\* line 127: current_time = time.time() - self.start_time
current_time == now - start_time

\* lines 112-127: a line is read and parse_line returns a sample.  A sample
\* for a channel of the store gets the next identity; the run delivers at
\* most MaxSamples of them.
PollSample(t) ==
    /\ ProcessUp /\ tpc[t] = "poll"
    /\ serial_conn = "open"
    /\ \E line \in LinesIn :
         LET parsed == parse_line(line)
         IN  /\ line # <<>>
             /\ parsed # None
             /\ tparsed' = [tparsed EXCEPT ![t] = parsed]
             /\ IF parsed.mic \in Mics
                THEN /\ nsamples < MaxSamples
                     /\ nsamples' = nsamples + 1
                     /\ tsid' = [tsid EXCEPT ![t] = nsamples + 1]
                ELSE UNCHANGED << nsamples, tsid >>
    /\ tcur' = [tcur EXCEPT ![t] = current_time]
    /\ SetPc(t, "append1")
    /\ UNCHANGED << data, serial_conn, running, thread, monitorVars, now, terr, gpc,
                    guiLocals, lines, hist, histVars, decoderVars, binaryVars, viewVars >>

AppendPc == <<"append1", "append2", "append3", "append4", "append5">>
AppendPcs == {AppendPc[k] : k \in 1 .. 5}

\* the number line 130-134 appends to series k of the sample's channel
Payload(t, k) ==
    IF k = 1 THEN tcur[t] ELSE tparsed[t][MetricOrder[k]]

\* an append that keeps the channels in lockstep: every channel takes it
AppendToAll(d, m, i, e) == [d EXCEPT ![m] = [j \in Mics |-> DequeAppend(@[j], e)]]

\* self.data[m][i].append(e)
AppendTo(d, m, i, e) == [d EXCEPT ![m][i] = DequeAppend(@, e)]

\* lines 130-134: self.data[metric][mic_num].append(...), one statement each
AppendStep(t, k) ==
    /\ ProcessUp /\ tpc[t] = AppendPc[k]
    /\ tparsed[t].mic \in Mics
    /\ LET m == MetricOrder[k]
           i == tparsed[t].mic
           e == [val |-> Payload(t, k), sid |-> tsid[t],
                 tag |-> "new"]
       IN  /\ data' = AppendTo(data, m, i, e)
           /\ hist' = [hist EXCEPT ![m][i] = Append(@, [val |-> e.val, sid |-> e.sid])]
    /\ SetPc(t, IF k < 5 THEN AppendPc[k + 1] ELSE "count")
    /\ UNCHANGED << serial_conn, running, thread, monitorVars, now, threadLocals, gpc,
                    guiLocals, lines, nsamples, histVars, decoderVars, binaryVars, viewVars >>

\* line 130 with mic_num >= num_mics: self.data['time'][mic_num] raises IndexError
AppendIndexError(t) ==
    /\ ProcessUp /\ tpc[t] = AppendPc[1]
    /\ tparsed[t].mic \notin Mics
    /\ SetPc(t, "except")
    /\ terr' = [terr EXCEPT ![t] = "IndexError"]
    /\ UNCHANGED << data, serial_conn, running, thread, monitorVars, now, tparsed, tcur,
                    tsid, gpc, guiLocals, lines, hist, nsamples, histVars, decoderVars, binaryVars, viewVars >>

\* an estimator that publishes on every sample
WindowElapsedAlways(elapsed) == elapsed >= 0

\* line 139: if elapsed >= 1.0
WindowElapsed(elapsed) == elapsed >= 1

\* lines 137-144: count the sample, publish the rate once a second; sleep 1 ms
CountSample(t) ==
    /\ ProcessUp /\ tpc[t] = "count"
    /\ LET elapsed == now - last_sample_time
       IN  IF WindowElapsed(elapsed)
           THEN /\ sampling_freq' = <<sample_count + 1, elapsed>>
                /\ sample_count' = 0
                /\ last_sample_time' = now
           ELSE /\ sample_count' = sample_count + 1
                /\ UNCHANGED << sampling_freq, last_sample_time >>
    /\ SetPc(t, "test")
    /\ tparsed' = [tparsed EXCEPT ![t] = None]
    /\ tcur' = [tcur EXCEPT ![t] = 0]
    /\ tsid' = [tsid EXCEPT ![t] = 0]
    /\ UNCHANGED << data, serial_conn, running, thread, start_time, now, terr, gpc,
                    guiLocals, lines, hist, nsamples, histVars, decoderVars, binaryVars, viewVars >>

\* a handler placed around the loop instead of inside it: the thread ends
AfterExceptOutsideLoop == "dead"

\* where the handler of line 146 leaves the thread
AfterExcept == "test"

\* lines 146-148: print the error, sleep 100 ms, go round the loop again
Except(t) ==
    /\ ProcessUp /\ tpc[t] = "except"
    /\ SetPc(t, AfterExcept)
    /\ terr' = [terr EXCEPT ![t] = "none"]
    /\ tparsed' = [tparsed EXCEPT ![t] = None]
    /\ tcur' = [tcur EXCEPT ![t] = 0]
    /\ tsid' = [tsid EXCEPT ![t] = 0]
    /\ UNCHANGED << data, serial_conn, running, thread, monitorVars, now, gpc,
                    guiLocals, lines, hist, nsamples, histVars, decoderVars, binaryVars, viewVars >>

read_serial(t) ==
    \/ Entry(t)
    \/ LoopTest(t)
    \/ PollNoData(t)
    \/ PollFault(t)
    \/ PollDropped(t)
    \/ PollSample(t)
    \/ \E k \in 1 .. 5 : AppendStep(t, k)
    \/ AppendIndexError(t)
    \/ CountSample(t)
    \/ Except(t)

\* time.time() advances
Tick ==
    /\ ProcessUp
    /\ now < MaxTime
    /\ now' = now + 1
    /\ UNCHANGED << data, serial_conn, running, thread, monitorVars, tpc, threadLocals,
                    gpc, guiLocals, lines, hist, nsamples, histVars, decoderVars, binaryVars, viewVars >>

(***************************************************************************)
(* Main thread: main(), then the Tk event loop and the calls it makes      *)
(***************************************************************************)
\* connect(), lines 60-72, as main() uses it at lines 755-766: on failure
\* main returns and the process ends
\* a main() that goes on to start_reading whatever connect() returned
AfterConnectFailureIgnored == "start"

\* main(), lines 755-766: if not monitor.connect(): print the advice, return
AfterConnectFailure == "exited"

connect ==
    /\ gpc = "connect"
    /\ \/ /\ serial_conn' = "open"
          /\ gpc' = "start"
       \/ /\ serial_conn' = serial_conn
          /\ gpc' = AfterConnectFailure
    /\ UNCHANGED << data, running, thread, monitorVars, now, tpc, threadLocals,
                    guiLocals, lines, hist, nsamples, histVars, decoderVars, binaryVars, viewVars >>

\* start_reading, lines 150-155: called by main() at line 769 and again by
\* any later caller
start_reading ==
    /\ gpc \in {"start", "idle"}
    /\ IF ShouldStart
       THEN /\ nthreads < MaxThreads
            /\ nthreads' = nthreads + 1
            /\ thread' = nthreads + 1
            /\ tpc' = [tpc EXCEPT ![nthreads + 1] = "entry"]
            /\ stop_pending' = FALSE
            /\ last_start' = "started"
            /\ session_start' = now
       ELSE /\ last_start' = "noop"
            /\ UNCHANGED << nthreads, thread, tpc, stop_pending, session_start >>
    /\ stopped' = FALSE
    /\ gpc' = "idle"
    /\ UNCHANGED << data, serial_conn, running, monitorVars, now, threadLocals,
                    guiLocals, lines, hist, nsamples, ncalls, decoderVars, binaryVars, viewVars >>

\* main(), line 769: the one start_reading call the program itself makes
main_start == gpc = "start" /\ start_reading

\* stop_reading, line 159: self.running = False.  The caller is either the
\* operator of the monitor or on_closing (line 782).
stop_flag ==
    /\ gpc = "idle"
    /\ running' = FALSE
    /\ stop_pending' = TRUE
    /\ \E caller \in {"stop_join", "close_join"} : gpc' = caller
    /\ UNCHANGED << data, serial_conn, thread, monitorVars, now, tpc, threadLocals,
                    guiLocals, lines, hist, nsamples, nthreads, stopped, last_start,
                    ncalls, session_start, decoderVars, binaryVars, viewVars >>

\* Thread.join(timeout=2) may give up: the wait is bounded.  Two seconds
\* exceed the longest iteration of the loop (a readline of at most 1 s, a
\* pause of at most 100 ms), so the wait runs out only on a thread that goes
\* on looping: one that has running = True, or is about to set it.
JoinTimesOut(t) == is_alive(t) /\ (running \/ tpc[t] = "entry")

\* stop_reading, lines 160-162: if self.thread: self.thread.join(timeout=2)
stop_join ==
    /\ gpc \in {"stop_join", "close_join"}
    /\ thread # 0 => (~is_alive(thread) \/ JoinTimesOut(thread))
    /\ stopped' = TRUE
    /\ gpc' = IF gpc = "stop_join" THEN "idle" ELSE "disconnect"
    /\ UNCHANGED << data, serial_conn, running, thread, monitorVars, now, tpc,
                    threadLocals, guiLocals, lines, hist, nsamples, nthreads,
                    stop_pending, last_start, ncalls, session_start, decoderVars, binaryVars, viewVars >>

\* disconnect, lines 74-78, called by on_closing at line 783
disconnect ==
    /\ gpc = "disconnect"
    /\ serial_conn' = IF serial_conn = "open" THEN "closed" ELSE serial_conn
    /\ gpc' = "destroy"
    /\ UNCHANGED << data, running, thread, monitorVars, now, tpc, threadLocals,
                    guiLocals, lines, hist, nsamples, histVars, decoderVars, binaryVars, viewVars >>

\* on_closing, line 784: root.destroy(); mainloop returns, main returns and
\* the process exits, taking its daemon threads with it
destroy ==
    /\ gpc = "destroy"
    /\ gpc' = "exited"
    /\ UNCHANGED << data, serial_conn, running, thread, monitorVars, now, tpc,
                    threadLocals, guiLocals, lines, hist, nsamples, histVars,
                    decoderVars, binaryVars, viewVars >>

\* history only: every element now in the store predates the clear that begins
MarkPre(q) == [k \in 1 .. Len(q) |-> [q[k] EXCEPT !.tag = "pre"]]

\* clear_all_graphs (lines 612-622) confirmed: clear_data is entered
clear_begin ==
    /\ gpc = "idle"
    /\ ncalls < MaxCalls
    /\ ncalls' = ncalls + 1
    /\ gpc' = "clear"
    /\ gi' = 0
    /\ gk' = 1
    /\ data' = [m \in Metrics |-> [i \in Mics |-> MarkPre(data[m][i])]]
    /\ UNCHANGED << serial_conn, running, thread, monitorVars, now, tpc, threadLocals,
                    gtab, gtimes, lines, hist, nsamples, nthreads, stopped, stop_pending,
                    last_start, session_start, decoderVars, binaryVars, viewVars >>

\* clear_data, lines 166-171: one deque.clear() per statement, channel by
\* channel, in the order time, rms, min, max, amplitude
clear_step ==
    /\ gpc = "clear"
    /\ data' = [data EXCEPT ![MetricOrder[gk]][gi] = DequeClear(@)]
    /\ hist' = [hist EXCEPT ![MetricOrder[gk]][gi] = <<>>]
    /\ IF gk < 5
       THEN /\ gk' = gk + 1
            /\ UNCHANGED << gi, gpc >>
       ELSE IF gi < NumMics - 1
            THEN /\ gi' = gi + 1
                 /\ gk' = 1
                 /\ UNCHANGED gpc
            ELSE /\ gi' = 0
                 /\ gk' = 0
                 /\ gpc' = "idle"
    /\ UNCHANGED << serial_conn, running, thread, monitorVars, now, tpc, threadLocals,
                    gtab, gtimes, lines, nsamples, histVars, decoderVars, binaryVars, viewVars >>

clear_data == clear_begin \/ clear_step

(***************************************************************************)
(* update_plots, lines 506-566: the periodic render callback               *)
(***************************************************************************)
\* the tabs the operator has selected when the callback runs: all-channel
\* RMS, all-channel MAX/MIN, and the single view of channel 0
TabInputs == {0, 1, 3}

\* for each tab: the channels it walks, the series whose length guards a
\* channel, and the (line, series) pairs it hands to set_data, in order
TabPlan(tab) ==
    IF tab = 0 THEN
        [first |-> 0, last |-> NumMics - 1, guard |-> "rms",
         ys |-> << <<"rms_lines", "rms">> >>]
    ELSE IF tab = 1 THEN
        [first |-> 0, last |-> NumMics - 1, guard |-> "max",
         ys |-> << <<"minmax_lines_max", "max">>, <<"minmax_lines_min", "min">> >>]
    ELSE IF tab = 2 THEN
        [first |-> 0, last |-> NumMics - 1, guard |-> "amplitude",
         ys |-> << <<"amplitude_lines", "amplitude">> >>]
    ELSE
        [first |-> tab - 3, last |-> tab - 3, guard |-> "rms",
         ys |-> << <<"single_rms", "rms">>, <<"single_amp", "amplitude">>,
                   <<"single_max", "max">>, <<"single_min", "min">> >>]

\* the axes update_plots adjusts for a channel of each tab
TabAxes(tab) ==
    IF tab = 0 THEN {"rms_axes"}
    ELSE IF tab = 1 THEN {"minmax_axes"}
    ELSE IF tab = 2 THEN {"amplitude_axes"}
    ELSE {"single_ax_rms", "single_ax_amp", "single_ax_max", "single_ax_min"}

SetMax(S) == CHOOSE x \in S : \A y \in S : y <= x
SetMin(S) == CHOOSE x \in S : \A y \in S : x <= y

\* lines 511-515: the latest timestamp among the last elements of the time
\* series, 0 when all are empty
CurrentTime(d) ==
    SetMax({0} \cup {d["time"][i][Len(d["time"][i])].val :
                        i \in {j \in Mics : Len(d["time"][j]) > 0}})

\* lines 509-515: the callback starts on the selected tab and computes
\* current_time
update_enter(tabs) ==
    /\ gpc = "idle"
    /\ \E tab \in tabs :
         /\ gtab' = tab
         /\ gi' = TabPlan(tab).first
    /\ gk' = 0
    /\ gpc' = "render"
    /\ gcur' = CurrentTime(data)
    /\ UNCHANGED << data, serial_conn, running, thread, monitorVars, now, tpc,
                    threadLocals, gtimes, lines, hist, nsamples, nthreads, stopped,
                    stop_pending, last_start, session_start, decoderVars, binaryVars,
                    settingVars, axesVars, time_window, manual_y, last_valid_window,
                    view_ev >>

\* one call of update_plots out of the MaxCalls of a run
update_begin ==
    /\ ncalls < MaxCalls
    /\ ncalls' = ncalls + 1
    /\ update_enter(TabInputs)

\* the coordinates a set of lines holds on one side
Coords(ls, side) ==
    UNION { {ls[l][side][k].val : k \in 1 .. Len(ls[l][side])} : l \in DOMAIN ls }

\* a scale check that lets any pair of bounds through
AcceptsAny(lo, hi) == TRUE

\* line 486: if y_min < y_max
Accepts(lo, hi) == lo < hi

\* lines 484-486: both entries are numbers and the bounds are in order
YEntriesApply ==
    /\ IsFloat(y_min_var) /\ IsFloat(y_max_var)
    /\ Accepts(float(y_min_var), float(y_max_var))

\* adjust_axis_scale, lines 475-504, on the axes named a, whose lines are ls.
\* relim() and autoscale_view() fit an axis to its lines only while
\* autoscaling is on for that axis; set_xlim and set_ylim turn it off.
AdjustedY(a, ls) ==
    IF auto_scale
    THEN IF yauto[a] /\ Coords(ls, "y") # {}
         THEN <<SetMin(Coords(ls, "y")), SetMax(Coords(ls, "y"))>>
         ELSE ylim[a]
    ELSE IF YEntriesApply THEN <<float(y_min_var), float(y_max_var)>>
         ELSE ylim[a]

AdjustedYAuto(a) == IF ~auto_scale /\ YEntriesApply THEN FALSE ELSE yauto[a]

\* lines 496-499: the width read from the entry, 30.0 when it is not a number
WindowRead ==
    IF IsFloat(time_window_var) THEN float(time_window_var) ELSE DefaultTimeWindow

AdjustedX(a, ls) ==
    IF ~show_all_time
    THEN <<SetMax({0, gcur - WindowRead}), gcur>>
    ELSE IF xauto[a] /\ Coords(ls, "x") # {}
         THEN <<SetMin(Coords(ls, "x")), SetMax(Coords(ls, "x"))>>
         ELSE xlim[a]

AdjustedXAuto(a) == IF ~show_all_time THEN FALSE ELSE xauto[a]

\* the calls of adjust_axis_scale for channel i of the tab being drawn
\* (lines 524, 534, 543, 559-560), given the lines as just set
adjust_axis_scale(i, newlines) ==
    LET touched == TabAxes(gtab) \X {i}
        ls(a) == [l \in AxisLines(a[1]) \X {i} |-> newlines[l]]
    IN  /\ ylim' = [a \in AxisNames |-> IF a \in touched THEN AdjustedY(a, ls(a)) ELSE ylim[a]]
        /\ yauto' = [a \in AxisNames |-> IF a \in touched THEN AdjustedYAuto(a) ELSE yauto[a]]
        /\ xlim' = [a \in AxisNames |-> IF a \in touched THEN AdjustedX(a, ls(a)) ELSE xlim[a]]
        /\ xauto' = [a \in AxisNames |-> IF a \in touched THEN AdjustedXAuto(a) ELSE xauto[a]]
        /\ time_window' = IF ~show_all_time THEN WindowRead ELSE time_window
        /\ last_valid_window' =
               IF ~show_all_time /\ IsFloat(time_window_var)
               THEN float(time_window_var) ELSE last_valid_window
        /\ view_ev' = IF auto_scale THEN view_ev
                      ELSE IF YEntriesApply THEN "set" ELSE "kept"

\* the callback moves to its next channel, or returns
NextChannel ==
    /\ gtimes' = <<>>
    /\ gk' = 0
    /\ IF gi < TabPlan(gtab).last
       THEN /\ gi' = gi + 1
            /\ UNCHANGED << gpc, gtab >>
       ELSE /\ gi' = 0
            /\ gtab' = 0
            /\ gpc' = "idle"

\* lines 520, 530, 540, 549: if len(self.monitor.data[guard][i]) > 0
update_guard ==
    /\ gpc = "render" /\ gk = 0
    /\ IF Len(data[TabPlan(gtab).guard][gi]) > 0
       THEN /\ gk' = 1
            /\ UNCHANGED << gpc, gi, gtab, gtimes >>
       ELSE NextChannel
    /\ gcur' = IF gpc' = "idle" THEN 0 ELSE gcur
    /\ UNCHANGED << data, serial_conn, running, thread, monitorVars, now, tpc,
                    threadLocals, lines, hist, nsamples, histVars, decoderVars, binaryVars,
                    settingVars, axesVars, time_window, manual_y, last_valid_window,
                    view_ev >>

\* lines 521, 531, 541, 550: times_i = list(self.monitor.data['time'][i])
update_times ==
    /\ gpc = "render" /\ gk = 1
    /\ gtimes' = Snapshot(data["time"][gi])
    /\ gk' = 2
    /\ UNCHANGED << data, serial_conn, running, thread, monitorVars, now, tpc,
                    threadLocals, gpc, gi, gtab, lines, hist, nsamples, histVars,
                    decoderVars, binaryVars, viewVars >>

\* lines 522-524, 532-534, 542-543, 553-560:
\* line.set_data(times_i, list(self.monitor.data[metric][i])) and, after the
\* last line of the channel, adjust_axis_scale on the channel's axes
update_set_data ==
    /\ gpc = "render" /\ gk >= 2
    /\ LET ys == TabPlan(gtab).ys
           j == gk - 1
           newlines == [lines EXCEPT ![<<ys[j][1], gi>>] =
                            [x |-> gtimes, y |-> Snapshot(data[ys[j][2]][gi])]]
       IN  /\ lines' = newlines
           /\ IF j < Len(ys)
              THEN /\ gk' = gk + 1
                   /\ UNCHANGED << gpc, gi, gtab, gtimes, axesVars, time_window,
                                   last_valid_window, view_ev >>
              ELSE /\ NextChannel
                   /\ adjust_axis_scale(gi, newlines)
    /\ gcur' = IF gpc' = "idle" THEN 0 ELSE gcur
    /\ UNCHANGED << data, serial_conn, running, thread, monitorVars, now, tpc,
                    threadLocals, hist, nsamples, histVars, decoderVars, binaryVars,
                    settingVars, manual_y >>

update_plots == update_begin \/ update_guard \/ update_times \/ update_set_data

(***************************************************************************)
(* Specifications                                                          *)
(***************************************************************************)
Next ==
    \/ \E t \in Threads : read_serial(t)
    \/ Tick
    \/ connect
    \/ start_reading
    \/ stop_flag
    \/ stop_join
    \/ disconnect
    \/ destroy
    \/ clear_data
    \/ update_plots

Spec == Init /\ [][Next]_vars

\* The capture thread against the operator's lifecycle calls.  clear_data
\* and update_plots touch only the store and the plotted lines, and are left
\* out.
LifeNext ==
    \/ \E t \in Threads : read_serial(t)
    \/ Tick
    \/ connect
    \/ start_reading
    \/ stop_flag
    \/ stop_join
    \/ disconnect
    \/ destroy

LifeSpec == Init /\ [][LifeNext]_vars

\* the scheduler lets every live capture thread run
FairLifeSpec == LifeSpec /\ \A t \in Threads : WF_vars(read_serial(t))

\* The capture thread against the store's other users, clear_data and
\* update_plots, while the capture stays on and the clock stands still.
StoreNext ==
    \/ \E t \in Threads : read_serial(t)
    \/ connect
    \/ main_start
    \/ clear_data
    \/ update_plots

StoreSpec == Init /\ [][StoreNext]_vars

(***************************************************************************)
(* The view policy on its own: the operator's controls and the render      *)
(* callback, applied to the store a capture has left.                      *)
(***************************************************************************)
\* what parse_line returns for a sample line of channel ch
SampleOf(ch) == parse_line(LineOf(SampleFields(ch)))

\* Everything appended to series m of channel ch by a capture that ran for T
\* seconds: channel 0 reported once a second from 0 to T and, when two
\* channels were connected, channel 1 once a second from 0 to T - 1.
Reported(m, ch, T, two) ==
    LET n == IF ch = 0 THEN T + 1 ELSE IF ch = 1 /\ two THEN T ELSE 0
    IN  [k \in 1 .. n |->
            [val |-> IF m = "time" THEN k - 1 ELSE SampleOf(ch)[m],
             sid |-> IF two THEN 2 * (k - 1) + 1 + ch ELSE k]]

Stored(h) == [k \in 1 .. Len(LastN(h, max_points)) |->
                 [val |-> LastN(h, max_points)[k].val,
                  sid |-> LastN(h, max_points)[k].sid, tag |-> "new"]]

\* the state after such a capture has been stopped, the window still open
ViewInit ==
    \E T \in 1 .. MaxViewTime, two \in BOOLEAN :
        /\ hist = [m \in Metrics |-> [i \in Mics |-> Reported(m, i, T, two)]]
        /\ data = [m \in Metrics |-> [i \in Mics |-> Stored(Reported(m, i, T, two))]]
        /\ nsamples = IF two THEN 2 * T + 1 ELSE T + 1
        /\ now = T
        /\ last_sample_time = T
        /\ sampling_freq = <<IF two THEN 2 ELSE 1, 1>>
        /\ serial_conn = "open"
        /\ running = FALSE
        /\ thread = 1
        /\ start_time = 0
        /\ sample_count = 0
        /\ tpc = [t \in Threads |-> IF t = 1 THEN "dead" ELSE "new"]
        /\ tparsed = [t \in Threads |-> None]
        /\ tcur = [t \in Threads |-> 0]
        /\ terr = [t \in Threads |-> "none"]
        /\ tsid = [t \in Threads |-> 0]
        /\ gpc = "idle"
        /\ gi = 0
        /\ gk = 0
        /\ gtab = 0
        /\ gtimes = <<>>
        /\ lines = [l \in LineNames |-> [x |-> <<>>, y |-> <<>>]]
        /\ nthreads = 1
        /\ stopped = TRUE
        /\ stop_pending = TRUE
        /\ last_start = "started"
        /\ ncalls = 0
        /\ session_start = 0
        /\ pin = SampleFields(0)
        /\ presult = Pending
        /\ time_window_var = InitialWindowEntry
        /\ show_all_time = FALSE
        /\ time_window = DefaultTimeWindow
        /\ auto_scale = FALSE
        /\ y_min_var = InitialYMinEntry
        /\ y_max_var = InitialYMaxEntry
        /\ manual_y = <<float(InitialYMinEntry), float(InitialYMaxEntry)>>
        /\ xlim = [a \in AxisNames |-> FreshLimits]
        /\ xauto = [a \in AxisNames |-> TRUE]
        /\ ylim = [a \in AxisNames |-> FreshLimits]
        /\ yauto = [a \in AxisNames |-> TRUE]
        /\ gcur = 0
        /\ last_valid_window = DefaultTimeWindow
        /\ view_ev = "none"
        /\ BinaryIdle

\* what the operator types into the time-window entry ...
WindowEntries == { <<"2">>, <<"4">>, <<"0">>, <<"-", "2">>, <<"x">> }
\* ... and into the Y min and Y max entries
YEntryPairs == { << <<"1">>, <<"2">> >>, << <<"2">>, <<"1">> >>,
                 << <<"2">>, <<"2">> >>, << <<"x">>, <<"2">> >> }
\* the tab that is open
ViewTabs == {0}

\* the operator edits the time-window entry (enabled in sliding mode only,
\* lines 605-609)
type_time_window ==
    /\ gpc = "idle"
    /\ ~show_all_time
    /\ \E tok \in WindowEntries : time_window_var' = tok
    /\ UNCHANGED << data, serial_conn, running, thread, monitorVars, now, tpc,
                    threadLocals, gpc, guiLocals, lines, hist, nsamples, histVars,
                    decoderVars, binaryVars, show_all_time, auto_scale, y_min_var, y_max_var,
                    axesVars, time_window, manual_y, gcur, last_valid_window, view_ev >>

\* the operator ticks or unticks "full history"; on_time_mode_change,
\* lines 603-610, only enables or disables the entry
on_time_mode_change ==
    /\ gpc = "idle"
    /\ show_all_time' = ~show_all_time
    /\ UNCHANGED << data, serial_conn, running, thread, monitorVars, now, tpc,
                    threadLocals, gpc, guiLocals, lines, hist, nsamples, histVars,
                    decoderVars, binaryVars, time_window_var, auto_scale, y_min_var, y_max_var,
                    axesVars, time_window, manual_y, gcur, last_valid_window, view_ev >>

\* the operator edits the Y entries (enabled in manual mode only, lines 579-586)
type_y_bounds ==
    /\ gpc = "idle"
    /\ ~auto_scale
    /\ \E pair \in YEntryPairs :
         /\ y_min_var' = pair[1]
         /\ y_max_var' = pair[2]
    /\ UNCHANGED << data, serial_conn, running, thread, monitorVars, now, tpc,
                    threadLocals, gpc, guiLocals, lines, hist, nsamples, histVars,
                    decoderVars, binaryVars, time_window_var, show_all_time, auto_scale,
                    axesVars, time_window, manual_y, gcur, last_valid_window, view_ev >>

\* toggle_scale_mode, lines 573-587
toggle_scale_mode ==
    /\ gpc = "idle"
    /\ auto_scale' = ~auto_scale
    /\ UNCHANGED << data, serial_conn, running, thread, monitorVars, now, tpc,
                    threadLocals, gpc, guiLocals, lines, hist, nsamples, histVars,
                    decoderVars, binaryVars, time_window_var, show_all_time, y_min_var, y_max_var,
                    axesVars, time_window, manual_y, gcur, last_valid_window, view_ev >>

\* apply_manual_scale, lines 589-601 (its button is enabled in manual mode)
apply_manual_scale ==
    /\ gpc = "idle"
    /\ ~auto_scale
    /\ IF YEntriesApply
       THEN /\ manual_y' = <<float(y_min_var), float(y_max_var)>>
            /\ view_ev' = "applied"
       ELSE /\ manual_y' = manual_y
            /\ view_ev' = "rejected"
    /\ UNCHANGED << data, serial_conn, running, thread, monitorVars, now, tpc,
                    threadLocals, gpc, guiLocals, lines, hist, nsamples, histVars,
                    decoderVars, binaryVars, settingVars, axesVars, time_window, gcur,
                    last_valid_window >>

\* line 566: root.after(self.refresh_rate, self.update_plots), the callback
\* runs again
update_timer ==
    /\ ncalls' = ncalls
    /\ update_enter(ViewTabs)

\* the time base: the window entry and the full-history checkbox
WindowNext ==
    \/ type_time_window
    \/ on_time_mode_change
    \/ update_timer
    \/ update_guard
    \/ update_times
    \/ update_set_data

WindowSpec == ViewInit /\ [][WindowNext]_vars

\* the Y scale: the two entries, the mode switch and the apply button
ScaleNext ==
    \/ type_y_bounds
    \/ toggle_scale_mode
    \/ apply_manual_scale
    \/ update_timer
    \/ update_guard
    \/ update_times
    \/ update_set_data

ScaleSpec == ViewInit /\ [][ScaleNext]_vars

\* The text decoder on its own: every line of ParseInputs, decoded once.
ParseInit ==
    /\ Constructed
    /\ pin \in ParseInputs
    /\ presult = Pending
    /\ BinaryIdle

decode ==
    /\ presult = Pending
    /\ presult' = parse_line(LineOf(pin))
    /\ UNCHANGED << data, serial_conn, running, thread, monitorVars, now, tpc,
                    threadLocals, gpc, guiLocals, lines, hist, nsamples, histVars, pin, binaryVars, viewVars >>

ParseNext == decode

ParseSpec == ParseInit /\ [][ParseNext]_vars

\* The clear button against the render callback: the store a capture has
\* left, the callback on its timer, and clear_all_graphs confirmed once.
ClearViewNext ==
    \/ clear_data
    \/ update_timer
    \/ update_guard
    \/ update_times
    \/ update_set_data

ClearViewSpec == ViewInit /\ [][ClearViewNext]_vars

\* The binary decoder on its own: raw byte buffers of several lengths, one
\* decode call each.
MaxDecodes == 3

\* the byte values a buffer is filled with, and the lengths of a buffer:
\* one byte, a frame less one byte, one frame, two frames and a byte
ByteInputs == {1, 255}
ChunkLens == {1, FrameBytes - 1, FrameBytes, 2 * FrameBytes + 1}
Chunk(len, b1, b2) == [k \in 1 .. len |-> IF k % 2 = 1 THEN b1 ELSE b2]

\* one decode call on a raw byte buffer: every complete frame of what is
\* pending is decoded, the partial tail stays buffered
decode_frames ==
    /\ ndecodes < MaxDecodes
    /\ \E len \in ChunkLens, b1 \in ByteInputs, b2 \in ByteInputs :
         LET chunk == Chunk(len, b1, b2)
             all == bin_buffer \o chunk
             n == CompleteFrames(all)
         IN /\ bin_frames' = bin_frames \o
                    [k \in 1 .. n |-> [ts |-> frame_index + k - 1,
                                       samples |-> DecodeFrame(FrameAt(all, k))]]
            /\ frame_index' = frame_index + n
            /\ bin_buffer' = Remainder(all)
            /\ bin_received' = bin_received \o chunk
    /\ ndecodes' = ndecodes + 1
    /\ UNCHANGED << data, serial_conn, running, thread, monitorVars, now, tpc,
                    threadLocals, gpc, guiLocals, lines, hist, nsamples, histVars,
                    decoderVars, viewVars >>

BinaryNext == decode_frames

BinarySpec == Init /\ [][BinaryNext]_vars

(***************************************************************************)
(* Properties                                                              *)
(***************************************************************************)
Sids(q) == {q[k].sid : k \in 1 .. Len(q)}

\* sample s has been through the append statement of series k of its channel
AppendedTo(s, k) ==
    \A t \in Threads :
        tsid[t] = s => \E j \in 1 .. 5 : j > k /\ tpc[t] \in {AppendPc[j], "count"}

\* C1: the time snapshot and the metric snapshot that update_plots hands to
\* one plot line have the same length and describe the same samples, element
\* by element.
C1_PairedSnapshotsAgree ==
    \A l \in LineNames :
        /\ Len(lines[l].x) = Len(lines[l].y)
        /\ \A k \in 1 .. Len(lines[l].x) : lines[l].x[k].sid = lines[l].y[k].sid

\* C2: clear_data is one indivisible wipe.  Once it has returned, (a) nothing
\* that was in the store when it was called is left, so no later snapshot
\* mixes elements from before and after it, and (b) no sample appended
\* around it has been wiped from a series it was appended to later while it
\* survives in a series it was appended to earlier: the wipe took every
\* series at the same instant.
C2_ClearAtomic ==
    gpc # "clear" =>
        /\ \A m \in Metrics, i \in Mics :
               \A k \in 1 .. Len(data[m][i]) : data[m][i][k].tag # "pre"
        /\ \A i \in Mics, j \in 1 .. 5, k \in 1 .. 5 :
               j < k =>
                   \A s \in Sids(data[MetricOrder[j]][i]) :
                       AppendedTo(s, k) => data[MetricOrder[k]][i] # <<>>

\* C3: no series is ever longer than max_points, and a series holds exactly
\* the latest max_points elements appended to it since its last wipe (all of
\* them while there are fewer), in the order they were appended.
C3_BoundedFifo ==
    \A m \in Metrics, i \in Mics :
        /\ Len(data[m][i]) <= max_points
        /\ Snapshot(data[m][i]) = LastN(hist[m][i], max_points)

\* a series has taken one append more than its capacity since its last wipe
C3_Witness ==
    \E m \in Metrics, i \in Mics :
        /\ Len(hist[m][i]) = max_points + 1
        /\ Len(data[m][i]) = max_points

\* C4: once stop_reading has returned, and until start_reading is called
\* again, no capture thread is alive: nothing reads the transport or appends
\* to the store.
C4_StoppedMeansExited == stopped => Alive = {}

\* C5: every time stop_reading clears the running flag, the capture loop
\* ends (fair scheduling of the capture thread assumed).
C5_StopLeadsToIdle == stop_pending ~> (Alive = {})

\* C6: the serial connection is never closed while a capture thread is alive.
C6_ClosedOnlyAfterExit == serial_conn = "closed" => Alive = {}

\* C7: at most one capture thread is alive at any time, whatever calls of
\* start_reading and stop_reading were made.
C7_SingleWriter == Cardinality(Alive) <= 1

\* start_reading was called while the second thread of the run was alive,
\* and did nothing
C7_Witness ==
    /\ last_start = "noop"
    /\ nthreads = 2
    /\ Alive = {2}

\* C8: a fault raised by the transport is caught inside the loop and leaves
\* the store as it was; the handler hands control back to the loop test; and
\* a capture thread ends only from the loop test, with the running flag down
\* after a stop_reading.
C8_FaultsRetried ==
    [][\A t \in Threads :
          /\ (tpc[t] = "poll" /\ tpc'[t] = "except") =>
                 (terr'[t] = "SerialException" /\ data' = data)
          /\ (tpc[t] = "except" /\ tpc'[t] # "except") =>
                 (tpc'[t] = "test" /\ data' = data)
          /\ (tpc[t] # "dead" /\ tpc'[t] = "dead") =>
                 (tpc[t] = "test" /\ ~running /\ stop_pending)]_vars

\* a fault was raised on a running capture that had already stored a sample
C8_Witness ==
    \E t \in Threads :
        /\ tpc[t] = "except"
        /\ terr[t] = "SerialException"
        /\ running
        /\ data["amplitude"][0] # <<>>

\* C9: a line that does not decode to a sample of a channel 0..5 never puts
\* the capture thread on the error path of line 146.
C9_BadLineDropped ==
    \A t \in Threads :
        (tparsed[t] # None /\ tparsed[t].mic \notin 0 .. 5) => tpc[t] # "except"

\* C10: parse_line returns None for every malformed line.
C10_MalformedNoMatch ==
    (presult # Pending /\ Malformed(pin)) => presult = None

\* C11: for every line of the expected shape with a channel digit 0..5,
\* parse_line returns the channel, the minimum and the maximum as written
\* (negative values included) and amplitude and rms as integer part times
\* 1000 plus fraction, in thousandths of a millivolt.
C11_ValidLineDecoded ==
    (presult # Pending /\ WellShaped(pin) /\ pin.ch \in 0 .. 5) =>
        presult = [mic |-> pin.ch,
                   min |-> IntMeant(pin.min),
                   max |-> IntMeant(pin.max),
                   amplitude |-> MillivoltsMeant(pin.amp),
                   rms |-> MillivoltsMeant(pin.rms)]

\* a line of channel 5 with a negative minimum has been decoded
C11_Witness ==
    /\ WellShaped(pin) /\ pin.ch = 5
    /\ pin.min = <<"-", "7">> /\ pin.amp = <<"1", "2", ".", "5", "0", "0">>
    /\ presult # Pending /\ presult.min = 0 - 7 /\ presult.amplitude = 12500

\* C12: a line tagged with a channel 0..5 that departs from the expected
\* shape (a field missing, a value that is not a number, an AMP or RMS
\* fraction that does not have exactly three digits, text after the RMS
\* field) yields no sample.
C12_ShapeEnforced ==
    (presult # Pending /\ pin.ch \in 0 .. 5 /\ ~WellShaped(pin)) => presult = None

Leaves(t, pc) == tpc[t] = pc /\ tpc'[t] # pc

\* C14: for a decoded sample of channel i in 0..5 the capture loop runs the
\* five append statements in order; each adds the sample's value to its own
\* series of channel i and changes no other series; the sample is then
\* counted once; and nothing else in the capture loop changes the store.
C14_OneAppendPerSeries ==
    [][/\ \A t \in Threads, k \in 1 .. 5 :
            (Leaves(t, AppendPc[k]) /\ tpc'[t] # "except") =>
                LET i == tparsed[t].mic
                    m == MetricOrder[k]
                    e == [val |-> Payload(t, k), sid |-> tsid[t]]
                IN  /\ tpc'[t] = IF k < 5 THEN AppendPc[k + 1] ELSE "count"
                    /\ hist'[m][i] = Append(hist[m][i], e)
                    /\ data'[m][i] # <<>>
                    /\ Snapshot(data'[m][i])[Len(data'[m][i])] = e
                    /\ \A m2 \in Metrics, j \in Mics :
                           (m2 # m \/ j # i) =>
                               (data'[m2][j] = data[m2][j] /\ hist'[m2][j] = hist[m2][j])
                    /\ sample_count' = sample_count
       /\ \A t \in Threads :
            Leaves(t, "count") =>
                /\ data' = data
                /\ \/ sample_count' = sample_count + 1
                   \/ sample_count' = 0 /\ sampling_freq'[1] = sample_count + 1
       /\ data' # data => \E t \in Threads, k \in 1 .. 5 : Leaves(t, AppendPc[k])
      ]_vars

\* the third sample of channel 0 has been appended to all five series and is
\* about to be counted
C14_Witness ==
    \E t \in Threads :
        /\ tpc[t] = "count" /\ tsid[t] = 3 /\ tparsed[t].mic = 0
        /\ \A m \in Metrics :
               /\ Len(hist[m][0]) = 3
               /\ hist[m][0][3].sid = 3
               /\ data[m][0][Len(data[m][0])].sid = 3

\* C15: when a sample is counted and at least one second has passed since
\* the rate window was reset, sampling_freq becomes count / elapsed, the
\* count returns to zero and the window restarts at the current time;
\* otherwise, and in every other step, sampling_freq and the window start
\* stay as they are; two resets are at least one second apart.
C15_RatePublishedPerSecond ==
    [][/\ IF \E t \in Threads : Leaves(t, "count")
          THEN IF now - last_sample_time >= 1
               THEN /\ sampling_freq' = <<sample_count + 1, now - last_sample_time>>
                    /\ sample_count' = 0
                    /\ last_sample_time' = now
               ELSE UNCHANGED << sampling_freq, last_sample_time >>
          ELSE UNCHANGED << sampling_freq, last_sample_time, sample_count >>
       /\ last_sample_time' # last_sample_time =>
              last_sample_time' - last_sample_time >= 1
      ]_vars

\* a second rate has been published, one second after the first, for a
\* window in which two samples were counted
C15_Witness ==
    /\ last_sample_time = 2
    /\ sampling_freq = <<2, 1>>
    /\ sample_count = 0

\* C16: the rate published when the first sample of the run is counted is
\* taken over a window that starts no earlier than the moment this sample
\* was decoded: the time between the construction of the monitor and the
\* first sample does not enter any published rate.
C16_RateOverCapture ==
    [][\A t \in Threads :
          (Leaves(t, "count") /\ tsid[t] = 1 /\ last_sample_time' # last_sample_time) =>
              last_sample_time >= start_time + tcur[t]
      ]_vars

\* C17: once the thread of a restarted capture is in its loop, start_time
\* and the start of the rate window are not earlier than the restart.
C17_FreshSession ==
    (nthreads >= 2 /\ is_alive(thread) /\ tpc[thread] # "entry") =>
        /\ start_time >= session_start
        /\ last_sample_time >= session_start

\* update_plots is at the step that sets the last line of a channel and
\* adjusts the channel's axes
Adjusting == gpc = "render" /\ gk >= 2 /\ gk - 1 = Len(TabPlan(gtab).ys)

\* the maximum timestamp across all channel series
LatestTimestamp ==
    SetMax({0} \cup UNION { {data["time"][i][k].val : k \in 1 .. Len(data["time"][i])} :
                             i \in Mics })

\* C18: every time the render loop adjusts an axis, the X range it leaves
\* the axis with is [0, t_now] in full-history mode and
\* [max(0, t_now - w), t_now] in sliding mode with a numeric width w, t_now
\* being the maximum timestamp across all channel series.
C18_VisibleRange ==
    [][(Adjusting /\ gk' = 0) =>
          \A a \in TabAxes(gtab) \X {gi} :
              IF show_all_time
              THEN xlim'[a] = <<0, LatestTimestamp>>
              ELSE IsFloat(time_window_var) =>
                       xlim'[a] = <<SetMax({0, LatestTimestamp - float(time_window_var)}),
                                    LatestTimestamp>>
      ]_vars

\* C19: the effective window width is always the latest numeric width the
\* render loop has read from the entry (the initial width before any).
C19_WidthRetained == time_window = last_valid_window

\* the two Y entries hold numbers, the first below the second
BoundsInOrder ==
    /\ IsFloat(y_min_var) /\ IsFloat(y_max_var)
    /\ float(y_min_var) < float(y_max_var)

\* C20: in manual mode, adjusting an axis gives it the Y bounds of the
\* entries when they are numbers with y_min < y_max and leaves its bounds
\* as they were otherwise; apply_manual_scale records the entries under the
\* same condition and keeps the recorded bounds otherwise.
C20_BadBoundsRejected ==
    [][/\ (Adjusting /\ gk' = 0 /\ ~auto_scale) =>
              \A a \in TabAxes(gtab) \X {gi} :
                  ylim'[a] = IF BoundsInOrder
                             THEN <<float(y_min_var), float(y_max_var)>>
                             ELSE ylim[a]
       /\ manual_y' # manual_y =>
              (BoundsInOrder /\ manual_y' = <<float(y_min_var), float(y_max_var)>>)
       /\ (view_ev' = "applied" /\ view_ev # "applied") =>
              (BoundsInOrder /\ manual_y' = <<float(y_min_var), float(y_max_var)>>)
       /\ (view_ev' = "rejected" /\ view_ev # "rejected") =>
              (~BoundsInOrder /\ manual_y' = manual_y)
      ]_vars

\* bounds 1..2 were applied, the entries then changed to 2 and 1, and an
\* adjustment of the axis of channel 0 kept the bounds 1..2
C20_Witness ==
    /\ view_ev = "kept"
    /\ y_min_var = <<"2">> /\ y_max_var = <<"1">>
    /\ ylim[<<"rms_axes", 0>>] = <<1, 2>>
    /\ manual_y = <<1, 2>>

\* a step of the main thread inside clear_data
ClearStep == gpc = "clear" /\ <<gi, gk, gpc>>' # <<gi, gk, gpc>>

\* C21: clear_data empties every series of every channel and touches nothing
\* else.  Each of its statements empties the one series it names and leaves
\* the other series, the connection, the running flag, the capture thread,
\* start_time, sample_count, last_sample_time and the published rate as they
\* were; entering it changes none of them either; once it has returned
\* nothing that was stored when it was called is left; and no series ever
\* exceeds the capacity max_points, before or after a wipe.
C21_ClearFrame ==
    /\ [][ClearStep =>
             /\ data' = [data EXCEPT ![MetricOrder[gk]][gi] = <<>>]
             /\ UNCHANGED << serial_conn, running, thread, monitorVars, tpc >>]_vars
    /\ [][(gpc = "idle" /\ gpc' = "clear") =>
             /\ \A m \in Metrics, i \in Mics :
                    /\ Len(data'[m][i]) = Len(data[m][i])
                    /\ \A k \in 1 .. Len(data[m][i]) :
                           data'[m][i][k].sid = data[m][i][k].sid
             /\ UNCHANGED << serial_conn, running, thread, monitorVars, tpc >>]_vars
    /\ [](gpc # "clear" =>
             \A m \in Metrics, i \in Mics :
                 \A k \in 1 .. Len(data[m][i]) : data[m][i][k].tag # "pre")
    /\ [](\A m \in Metrics, i \in Mics : Len(data[m][i]) <= max_points)

\* clear_data has returned during a capture: samples were stored and counted,
\* the store is empty, and the connection, the flag, the thread and the
\* counter are as the capture left them
C21_Witness ==
    /\ gpc = "idle"
    /\ ncalls = 1
    /\ data = EmptyStore
    /\ sample_count >= 1
    /\ nsamples >= 1
    /\ serial_conn = "open"
    /\ running
    /\ thread # 0 /\ is_alive(thread)

\* connect() has returned False: no Serial object was made
ConnectFailed == gpc # "connect" /\ serial_conn = "none"

\* C22: a failure of the initial connect is fatal, a fault during the capture
\* is not.  When connect() has failed, main has returned, no capture thread
\* was ever started, the running flag is down and no sample was ever
\* appended; a fault raised while the capture reads leaves the thread alive
\* and back at the loop test, and ends neither the loop nor the program.
C22_ConnectFailureFatal ==
    /\ [](ConnectFailed =>
             /\ gpc = "exited"
             /\ nthreads = 0 /\ thread = 0 /\ ~running
             /\ \A t \in Threads : tpc[t] = "new"
             /\ nsamples = 0 /\ sample_count = 0
             /\ data = EmptyStore)
    /\ [][\A t \in Threads :
             (tpc[t] = "except" /\ tpc'[t] # "except") =>
                 /\ tpc'[t] = "test"
                 /\ UNCHANGED << gpc, running, serial_conn, thread >>]_vars

\* the connect failed after the clock had moved: the program is over with
\* nothing started
C22_Witness ==
    /\ ConnectFailed
    /\ gpc = "exited"
    /\ now >= 1
    /\ nthreads = 0

\* C23: after any sequence of binary decode calls that delivered B bytes in
\* all, exactly B div 12 frames of 6 samples each have been produced, numbered
\* 0, 1, 2, ... across the calls, and the B mod 12 bytes after the last
\* complete frame are buffered: the buffer is the tail of what was delivered
\* and every frame is decoded from its own 12 bytes of the stream, so no byte
\* of a partial frame was discarded.
C23_FramesAndRemainder ==
    LET B == Len(bin_received)
    IN /\ Len(bin_frames) = B \div 12
       /\ frame_index = B \div 12
       /\ Len(bin_buffer) = B % 12
       /\ bin_buffer = SubSeq(bin_received, B - (B % 12) + 1, B)
       /\ \A k \in 1 .. Len(bin_frames) :
              /\ DOMAIN bin_frames[k].samples = 0 .. 5
              /\ bin_frames[k].ts = k - 1
              /\ \A i \in 0 .. 5 :
                     LET lo == bin_received[12 * (k - 1) + 2 * i + 1]
                         hi == bin_received[12 * (k - 1) + 2 * i + 2]
                     IN bin_frames[k].samples[i] =
                            IF hi >= 128 THEN lo + 256 * hi - 65536 ELSE lo + 256 * hi

\* a frame was completed by a later call than the one that brought its first
\* byte, and a byte of the next frame is waiting
C23_Witness ==
    /\ ndecodes = 3
    /\ Len(bin_received) = FrameBytes + 1
    /\ Len(bin_frames) = 1
    /\ Len(bin_buffer) = 1
    /\ bin_frames[1].samples[0] < 0

\* update_plots returns
RenderReturns == gpc = "render" /\ gpc' = "idle"

\* C24: the first refresh after clear_all_graphs brings the plot up to date.
\* When update_plots returns and clear_data has run before it, every line of
\* the visible tab whose series is empty shows no point: no line goes on
\* showing what the store held before the clear.
C24_ClearedLinesRedrawn ==
    [][(RenderReturns /\ ncalls >= 1) =>
          \A i \in TabPlan(gtab).first .. TabPlan(gtab).last :
              \A j \in 1 .. Len(TabPlan(gtab).ys) :
                  LET line == lines'[<<TabPlan(gtab).ys[j][1], i>>]
                      series == data'[TabPlan(gtab).ys[j][2]][i]
                  IN series = <<>> => (line.x = <<>> /\ line.y = <<>>)]_vars

\* C25: whenever no capture thread is in the middle of appending a sample
\* and clear_data is not in the middle of its wipe, the five series of each
\* channel have the same length.
C25_SeriesAligned ==
    (gpc # "clear" /\ \A t \in Threads : tpc[t] \notin AppendPcs) =>
        \A i \in Mics, m \in Metrics :
            Len(data[m][i]) = Len(data["time"][i])

\* C26: in sliding-window mode, whatever the time-window entry holds (a
\* positive, zero or negative number, or no number at all), the X range the
\* render loop applies to an axis is well formed: 0 <= x_min <= x_max, and
\* x_max is t_now, the maximum timestamp across all channel series.
C26_SlidingRangeWellFormed ==
    [][(Adjusting /\ gk' = 0 /\ ~show_all_time) =>
          \A a \in TabAxes(gtab) \X {gi} :
              /\ 0 <= xlim'[a][1]
              /\ xlim'[a][1] <= xlim'[a][2]
              /\ xlim'[a][2] = LatestTimestamp
      ]_vars
====
